---- MODULE Spec2Model ----
(***************************************************************************)
(* Model of the hiddify "Simple SSH" extension: the form data, the console *)
(* buffer, the cancel handle and the background tasks (Runners) that       *)
(* SubmitData spawns.  Foreground calls (SubmitData, Cancel, Stop) are     *)
(* serialized by the host and are one action each; a background task is a  *)
(* goroutine and takes one step per statement that touches shared state    *)
(* or the network.                                                         *)
(***************************************************************************)
EXTENDS Integers, Sequences, FiniteSets, TLC

VARIABLES
    Data,       \* e.Base.Data
    console,    \* e.console: the console text, newest line first
    cancel,     \* e.cancel: 0 is nil, t > 0 is the CancelFunc of context t
    ctx,        \* ctx[t]: "live", or the call that cancelled context t
    task,       \* task[t]: the goroutine running backgroundTask(ctx t)
    written,    \* tasks in the order of their console writes, newest first
    ui,         \* the last form handed to UpdateUI
    lastCall    \* the last foreground call: its name, result and pop-up

vars == <<Data, console, cancel, ctx, task, written, ui, lastCall>>

\* Number of SubmitData calls that spawn a task in one behaviour.
MaxRunners == 2

NoTask == 0

(***************************************************************************)
(* Text.  color.Sprint wraps its text in the colour's escape sequence and  *)
(* the reset sequence; fmt.Sprintln joins its operands with single spaces  *)
(* and ends the line.                                                      *)
(***************************************************************************)
red(s) == "<ESC[31;1m>" \o s \o "<ESC[0m>"

green(s) == "<ESC[32;4m>" \o s \o "<ESC[0m>"

yellow(s) == "<ESC[33m>" \o s \o "<ESC[0m>"

RECURSIVE Sprintln(_)
Sprintln(message) ==
    IF message = <<>> THEN "\n"
    ELSE IF Len(message) = 1 THEN message[1] \o "\n"
    ELSE message[1] \o " " \o Sprintln(Tail(message))

\* fmt.Sprintf("%s:%s", ip, port)
Address(ip, port) == ip \o ":" \o port

(***************************************************************************)
(* Form data.                                                              *)
(***************************************************************************)
IPKey == "ip"

PortKey == "port"

UsernameKey == "username"

PasswordKey == "password"

CommandKey == "command"

\* A submitted map is a function from the keys it holds to strings.
Has(data, key) == key \in DOMAIN data

\* The same function building the data anew from the map: a key that is
\* absent empties its field.
setFormDataOverwrites(d, data) ==
    [IP       |-> IF Has(data, IPKey) THEN data[IPKey] ELSE "",
     Port     |-> IF Has(data, PortKey) THEN data[PortKey] ELSE "",
     Username |-> IF Has(data, UsernameKey) THEN data[UsernameKey] ELSE "",
     Password |-> IF Has(data, PasswordKey) THEN data[PasswordKey] ELSE "",
     Command  |-> IF Has(data, CommandKey) THEN data[CommandKey] ELSE ""]

setFormData(d, data) ==
    [IP       |-> IF Has(data, IPKey) THEN data[IPKey] ELSE d.IP,
     Port     |-> IF Has(data, PortKey) THEN data[PortKey] ELSE d.Port,
     Username |-> IF Has(data, UsernameKey) THEN data[UsernameKey] ELSE d.Username,
     Password |-> IF Has(data, PasswordKey) THEN data[PasswordKey] ELSE d.Password,
     Command  |-> IF Has(data, CommandKey) THEN data[CommandKey] ELSE d.Command]

\* setFormData above is e.Base.Data after the call; this is the error it
\* returns: always nil.
setFormDataErr(d, data) == "nil"

\* The maps the host submits in this model.
SubmitInputs ==
    { [k \in {CommandKey, "bogus"} |-> IF k = CommandKey THEN "echo done" ELSE "x"],
      [k \in {IPKey, PortKey, UsernameKey, PasswordKey, CommandKey} |->
          CASE k = IPKey -> "10.0.0.2"
            [] k = PortKey -> "1"
            [] k = UsernameKey -> "u"
            [] k = PasswordKey -> "p"
            [] k = CommandKey -> "echo done"] }

(***************************************************************************)
(* The form.                                                               *)
(***************************************************************************)
GetUI(d, con) ==
    [Title   |-> "Simple SSH Command Executor",
     Buttons |-> <<"Cancel", "Submit">>,
     Fields  |-> << [Type |-> "Input", Key |-> IPKey, Value |-> d.IP],
                    [Type |-> "Input", Key |-> PortKey, Value |-> d.Port],
                    [Type |-> "Input", Key |-> UsernameKey, Value |-> d.Username],
                    [Type |-> "Password", Key |-> PasswordKey, Value |-> d.Password],
                    [Type |-> "Input", Key |-> CommandKey, Value |-> d.Command],
                    [Type |-> "Console", Key |-> "console", Value |-> con] >>]

NoForm == [Title |-> "", Buttons |-> <<>>, Fields |-> <<>>]

(***************************************************************************)
(* The remote side, as far as the task sees it.                            *)
(***************************************************************************)
DialErrors == {"connection refused"}

SessionErrors == {"open failed"}

\* What the remote command does: exit at some time, or never exit.
Remotes == {"exits", "never"}

\* The exit status of a command that exits.
ExitStatus == {0, 1}

\* Combined stdout and stderr of a command that exits 0.
Output(cmd) ==
    CASE cmd = "echo 'Hello, World!'" -> "Hello, World!\n"
      [] cmd = "echo done" -> "done\n"
      [] OTHER -> ""

(***************************************************************************)
(* Construction.                                                           *)
(***************************************************************************)
DefaultData ==
    [IP |-> "127.0.0.1", Port |-> "22", Username |-> "",
     Password |-> "", Command |-> "echo 'Hello, World!'"]

NewHiddifyExtensionSimpleSsh ==
    /\ Data = DefaultData
    /\ console = yellow("Ready to execute commands over SSH\n")
    /\ cancel = NoTask

Init ==
    /\ NewHiddifyExtensionSimpleSsh
    /\ ctx = <<>>
    /\ task = <<>>
    /\ written = <<>>
    /\ ui = NoForm
    /\ lastCall = [op |-> "none", ret |-> "nil", shown |-> <<>>, spawned |-> NoTask]

(***************************************************************************)
(* Foreground calls.                                                       *)
(***************************************************************************)
\* cancel(): context t becomes done; a second call changes nothing.
Trip(c, t, by) ==
    IF t # NoTask /\ c[t] = "live" THEN [c EXCEPT ![t] = by] ELSE c

\* The goroutine `go e.backgroundTask(ctx)` starts, at its first statement.
\* message keeps the operands of the task's addAndUpdateConsole call, tmp the
\* text the call assigns to e.console, until the call has returned.
NewTask ==
    [pc |-> "config", user |-> "", pass |-> "", addr |-> "", cmd |-> "",
     remote |-> "", result |-> "", message |-> <<>>, tmp |-> "",
     client |-> "none", session |-> "none"]

\* The same handler with the call of the old cancel function left out.
SubmitDataNoPreempt(data) ==
    /\ Len(task) < MaxRunners
    /\ Data' = setFormData(Data, data)
    /\ ctx' = Append(ctx, "live")
    /\ cancel' = Len(ctx) + 1
    /\ task' = Append(task, NewTask)
    /\ lastCall' = [op |-> "SubmitData", ret |-> "nil", shown |-> <<>>,
                    spawned |-> Len(ctx) + 1]
    /\ UNCHANGED <<console, written, ui>>

SubmitData(data) ==
    /\ Len(task) < MaxRunners
    /\ Data' = setFormData(Data, data)
    /\ IF setFormDataErr(Data, data) # "nil"
       THEN /\ lastCall' = [op |-> "SubmitData", ret |-> setFormDataErr(Data, data),
                            shown |-> <<"Invalid data", setFormDataErr(Data, data)>>,
                            spawned |-> NoTask]
            /\ UNCHANGED <<console, cancel, ctx, task, written, ui>>
       ELSE /\ ctx' = Append(Trip(ctx, cancel, "SubmitData"), "live")
            /\ cancel' = Len(ctx) + 1
            /\ task' = Append(task, NewTask)
            /\ lastCall' = [op |-> "SubmitData", ret |-> "nil", shown |-> <<>>,
                            spawned |-> Len(ctx) + 1]
            /\ UNCHANGED <<console, written, ui>>

\* The same handler with `e.cancel = nil` left out.
CancelKeepsHandle ==
    /\ ctx' = Trip(ctx, cancel, "Cancel")
    /\ lastCall' = [op |-> "Cancel", ret |-> "nil", shown |-> <<>>, spawned |-> NoTask]
    /\ UNCHANGED <<Data, console, cancel, task, written, ui>>

Cancel ==
    /\ ctx' = Trip(ctx, cancel, "Cancel")
    /\ cancel' = NoTask
    /\ lastCall' = [op |-> "Cancel", ret |-> "nil", shown |-> <<>>, spawned |-> NoTask]
    /\ UNCHANGED <<Data, console, task, written, ui>>

\* A Stop that returns nil without delegating to Cancel.
StopReturnsOnly ==
    /\ lastCall' = [op |-> "Cancel", ret |-> "nil", shown |-> <<>>, spawned |-> NoTask]
    /\ UNCHANGED <<Data, console, cancel, ctx, task, written, ui>>

\* return e.Cancel()
Stop == Cancel

(***************************************************************************)
(* backgroundTask, one action per step of goroutine t.                     *)
(***************************************************************************)
At(t, pc) == t \in DOMAIN task /\ task[t].pc = pc

Step(t, new) ==
    /\ task' = [task EXCEPT ![t] = new]

\* Where the goroutine goes after addAndUpdateConsole: the deferred closes,
\* last deferred first, then the return.
\* The return with the deferred session.Close() left out.
ReturnSkipsSession(tk) ==
    IF tk.client = "open" THEN "close_client" ELSE "done"

Return(tk) ==
    IF tk.session = "open" THEN "close_session"
    ELSE IF tk.client = "open" THEN "close_client"
    ELSE "done"

\* config := &ssh.ClientConfig{User: ..., Auth: ...}
BuildConfig(t) ==
    /\ At(t, "config")
    /\ Step(t, [task[t] EXCEPT !.pc = "address",
                               !.user = Data.Username, !.pass = Data.Password])
    /\ UNCHANGED <<Data, console, cancel, ctx, written, ui, lastCall>>

\* address := fmt.Sprintf("%s:%s", e.Base.Data.IP, e.Base.Data.Port)
BuildAddress(t) ==
    /\ At(t, "address")
    /\ Step(t, [task[t] EXCEPT !.pc = "dial", !.addr = Address(Data.IP, Data.Port)])
    /\ UNCHANGED <<Data, console, cancel, ctx, written, ui, lastCall>>

\* config and address are not read again once ssh.Dial has returned.
Used(tk) == [tk EXCEPT !.user = "", !.pass = "", !.addr = ""]

Dial(t) ==
    /\ At(t, "dial")
    /\ \/ Step(t, [Used(task[t]) EXCEPT !.pc = "session", !.client = "open"])
       \/ \E err \in DialErrors :
            Step(t, [Used(task[t]) EXCEPT !.pc = "append",
                                    !.result = "connect failed",
                                    !.message = <<red("Failed to connect: "), err>>])
    /\ UNCHANGED <<Data, console, cancel, ctx, written, ui, lastCall>>

\* client.NewSession() reporting its failure with the line of ssh.Dial.
NewSessionWrongLine(t) ==
    /\ At(t, "session")
    /\ \/ Step(t, [task[t] EXCEPT !.pc = "run", !.session = "open"])
       \/ \E err \in SessionErrors :
            Step(t, [task[t] EXCEPT !.pc = "append",
                                    !.result = "session failed",
                                    !.message = <<red("Failed to connect: "), err>>])
    /\ UNCHANGED <<Data, console, cancel, ctx, written, ui, lastCall>>

\* session, err := client.NewSession()
NewSession(t) ==
    /\ At(t, "session")
    /\ \/ Step(t, [task[t] EXCEPT !.pc = "run", !.session = "open"])
       \/ \E err \in SessionErrors :
            Step(t, [task[t] EXCEPT !.pc = "append",
                                    !.result = "session failed",
                                    !.message = <<red("Failed to create SSH session: "), err>>])
    /\ UNCHANGED <<Data, console, cancel, ctx, written, ui, lastCall>>

\* session.CombinedOutput(e.Base.Data.Command): the command is read and sent.
StartCommand(t) ==
    /\ At(t, "run")
    /\ \E rem \in Remotes :
         Step(t, [task[t] EXCEPT !.pc = "wait", !.cmd = Data.Command, !.remote = rem])
    /\ UNCHANGED <<Data, console, cancel, ctx, written, ui, lastCall>>

\* CombinedOutput returns when the remote command has exited.
CombinedOutput(t) ==
    /\ At(t, "wait")
    /\ task[t].remote = "exits"
    /\ \E status \in ExitStatus :
       IF status = 0
       THEN Step(t, [task[t] EXCEPT !.pc = "append", !.cmd = "", !.remote = "",
                                    !.result = "success",
                                    !.message = <<green("Command executed successfully:\n"),
                                                  Output(task[t].cmd)>>])
       ELSE Step(t, [task[t] EXCEPT !.pc = "append", !.cmd = "", !.remote = "",
                                    !.result = "execution failed",
                                    !.message = <<red("Command execution failed: "),
                                                  "Process exited with status 1">>])
    /\ UNCHANGED <<Data, console, cancel, ctx, written, ui, lastCall>>

\* addAndUpdateConsole: the right-hand side of the assignment is evaluated.
AppendRead(t) ==
    /\ At(t, "append")
    /\ Step(t, [task[t] EXCEPT !.pc = "store",
                               !.tmp = Sprintln(task[t].message) \o console])
    /\ UNCHANGED <<Data, console, cancel, ctx, written, ui, lastCall>>

\* addAndUpdateConsole: e.console is assigned.
AppendWrite(t) ==
    /\ At(t, "store")
    /\ console' = task[t].tmp
    /\ written' = <<t>> \o written
    /\ Step(t, [task[t] EXCEPT !.pc = "update"])
    /\ UNCHANGED <<Data, cancel, ctx, ui, lastCall>>

\* addAndUpdateConsole: e.UpdateUI(e.GetUI()).
UpdateUI(t) ==
    /\ At(t, "update")
    /\ ui' = GetUI(Data, console)
    /\ Step(t, [task[t] EXCEPT !.pc = Return(task[t]), !.tmp = ""])
    /\ UNCHANGED <<Data, console, cancel, ctx, written, lastCall>>

\* defer session.Close()
CloseSession(t) ==
    /\ At(t, "close_session")
    /\ Step(t, [task[t] EXCEPT !.session = "closed",
                               !.pc = Return([task[t] EXCEPT !.session = "closed"])])
    /\ UNCHANGED <<Data, console, cancel, ctx, written, ui, lastCall>>

\* The return without the deferred client.Close().
CloseClientLeaks(t) ==
    /\ At(t, "close_client")
    /\ Step(t, [task[t] EXCEPT !.pc = "done"])
    /\ UNCHANGED <<Data, console, cancel, ctx, written, ui, lastCall>>

\* defer client.Close()
CloseClient(t) ==
    /\ At(t, "close_client")
    /\ Step(t, [task[t] EXCEPT !.client = "closed", !.pc = "done"])
    /\ UNCHANGED <<Data, console, cancel, ctx, written, ui, lastCall>>

backgroundTask(t) ==
    \/ BuildConfig(t)
    \/ BuildAddress(t)
    \/ Dial(t)
    \/ NewSession(t)
    \/ StartCommand(t)
    \/ CombinedOutput(t)
    \/ AppendRead(t)
    \/ AppendWrite(t)
    \/ UpdateUI(t)
    \/ CloseSession(t)
    \/ CloseClient(t)

Next ==
    \/ \E data \in SubmitInputs : SubmitData(data)
    \/ Cancel
    \/ Stop
    \/ \E t \in 1..MaxRunners : backgroundTask(t)

Spec == Init /\ [][Next]_vars

\* The Go scheduler runs every goroutine that can take a step.
FairSpec == Spec /\ \A t \in 1..MaxRunners : WF_vars(backgroundTask(t))

(***************************************************************************)
(* The counting extension of hiddify_extension/extension.go: the same      *)
(* SubmitData, Cancel, Stop and addAndUpdateConsole around a task that     *)
(* counts to Data.Count, one console line a second, and watches its        *)
(* context.  Its definitions carry the prefix Tpl.                         *)
(***************************************************************************)

\* Number of SubmitData calls that spawn a counting task in one behaviour.
MaxTasks == 2

\* Number of addAndUpdateConsole calls in one behaviour of the counting tasks.
MaxLines == 5

CountKey == "count"

Digits == <<"0", "1", "2", "3", "4", "5", "6", "7", "8", "9">>

IsDigit(c) == \E i \in 1..10 : Digits[i] = c

DigitValue(c) == (CHOOSE i \in 1..10 : Digits[i] = c) - 1

RECURSIVE ParseDigits(_, _)
ParseDigits(s, acc) ==
    IF s = "" THEN acc
    ELSE ParseDigits(SubSeq(s, 2, Len(s)), 10 * acc + DigitValue(SubSeq(s, 1, 1)))

AllDigits(s) == s # "" /\ \A i \in 1..Len(s) : IsDigit(SubSeq(s, i, i))

\* strconv.Atoi: an optional sign, then decimal digits.
Atoi(s) ==
    LET signed == s # "" /\ SubSeq(s, 1, 1) \in {"+", "-"}
        body   == IF signed THEN SubSeq(s, 2, Len(s)) ELSE s
    IN  IF AllDigits(body)
        THEN [err |-> "nil",
              val |-> IF signed /\ SubSeq(s, 1, 1) = "-"
                      THEN 0 - ParseDigits(body, 0) ELSE ParseDigits(body, 0)]
        ELSE [err |-> "strconv.Atoi: parsing " \o s \o ": invalid syntax", val |-> 0]

\* fmt.Sprintf("%d", n) and color.Sprint(n)
Itoa(n) == ToString(n)

TplSetFormDataErr(d, data) ==
    IF Has(data, CountKey)
    THEN IF Atoi(data[CountKey]).err = "nil"
         THEN IF Atoi(data[CountKey]).val < 5
              THEN "please use a number greater than 5"
              ELSE "nil"
         ELSE Atoi(data[CountKey]).err
    ELSE "nil"

\* The same function storing the parsed count before the range check.
TplSetFormDataStoresFirst(d, data) ==
    IF Has(data, CountKey) /\ Atoi(data[CountKey]).err = "nil"
    THEN [Count |-> Atoi(data[CountKey]).val]
    ELSE d

\* e.Base.Data after the call, whether or not it returned an error.
TplSetFormData(d, data) ==
    IF Has(data, CountKey) /\ TplSetFormDataErr(d, data) = "nil"
    THEN [Count |-> Atoi(data[CountKey]).val]
    ELSE d

TplSubmitInputs ==
    { [k \in {CountKey} |-> "5"],
      [k \in {CountKey} |-> "3"],
      [k \in {CountKey} |-> "five"],
      [k \in {"bogus"} |-> "x"] }

\* A GetUI that offers Submit while a task is ongoing too.
TplGetUIKeepsSubmit(d, con, c) ==
    [Title   |-> "hiddify_extension_simple_ssh",
     Buttons |-> <<"Cancel", "Submit">>,
     Fields  |-> IF c # NoTask
                 THEN << [Type |-> "Console", Key |-> "console", Value |-> con] >>
                 ELSE << [Type |-> "Input", Key |-> CountKey, Value |-> Itoa(d.Count)],
                         [Type |-> "Console", Key |-> "console", Value |-> con] >>]

TplGetUI(d, con, c) ==
    IF c # NoTask
    THEN [Title   |-> "hiddify_extension_simple_ssh",
          Buttons |-> <<"Cancel">>,
          Fields  |-> << [Type |-> "Console", Key |-> "console", Value |-> con] >>]
    ELSE [Title   |-> "hiddify_extension_simple_ssh",
          Buttons |-> <<"Cancel", "Submit">>,
          Fields  |-> << [Type |-> "Input", Key |-> CountKey, Value |-> Itoa(d.Count)],
                         [Type |-> "Console", Key |-> "console", Value |-> con] >>]

TplNewExtension ==
    /\ Data = [Count |-> 4]
    /\ console = yellow("Welcome to ") \o green("hiddify_extension_simple_ssh\n")
    /\ cancel = NoTask

TplInit ==
    /\ TplNewExtension
    /\ ctx = <<>>
    /\ task = <<>>
    /\ written = <<>>
    /\ ui = NoForm
    /\ lastCall = [op |-> "none", ret |-> "nil", shown |-> <<>>, spawned |-> NoTask]

\* The goroutine `go e.backgroundTask(ctx)` starts, at the head of its loop.
TplNewTask ==
    [pc |-> "for", count |-> 1, result |-> "", message |-> <<>>]

TplSubmitData(data) ==
    /\ Len(task) < MaxTasks
    /\ Data' = TplSetFormData(Data, data)
    /\ IF TplSetFormDataErr(Data, data) # "nil"
       THEN /\ lastCall' = [op |-> "SubmitData", ret |-> TplSetFormDataErr(Data, data),
                            shown |-> <<"Invalid data", TplSetFormDataErr(Data, data)>>,
                            spawned |-> NoTask]
            /\ UNCHANGED <<console, cancel, ctx, task, written, ui>>
       ELSE /\ ctx' = Append(Trip(ctx, cancel, "SubmitData"), "live")
            /\ cancel' = Len(ctx) + 1
            /\ task' = Append(task, TplNewTask)
            /\ lastCall' = [op |-> "SubmitData", ret |-> "nil", shown |-> <<>>,
                            spawned |-> Len(ctx) + 1]
            /\ UNCHANGED <<console, written, ui>>

\* addAndUpdateConsole calls made or under way.
Appends == Len(written) + Cardinality({t \in DOMAIN task : task[t].pc = "append"})

\* for count := 1; count <= e.Base.Data.Count; count++
TplLoop(t) ==
    /\ At(t, "for")
    /\ Step(t, [task[t] EXCEPT !.pc = IF task[t].count <= Data.Count
                                      THEN "select" ELSE "finish"])
    /\ UNCHANGED <<Data, console, cancel, ctx, written, ui, lastCall>>

\* case <-ctx.Done(): e.cancel = nil; the cancellation line follows.
TplCanceled(t) ==
    /\ At(t, "select")
    /\ ctx[t] # "live"
    /\ Appends < MaxLines
    /\ cancel' = NoTask
    /\ Step(t, [task[t] EXCEPT !.pc = "append", !.result = "canceled",
                               !.message = <<red("Background Task Canceled")>>])
    /\ UNCHANGED <<Data, console, ctx, written, ui, lastCall>>

\* case <-time.After(1 * time.Second): the progress line follows.
TplTick(t) ==
    /\ At(t, "select")
    /\ Appends < MaxLines
    /\ Step(t, [task[t] EXCEPT !.pc = "append", !.result = "working",
                               !.message = <<red(Itoa(task[t].count)),
                                             yellow(" Background task " \o Itoa(task[t].count)
                                                    \o " working...")>>])
    /\ UNCHANGED <<Data, console, cancel, ctx, written, ui, lastCall>>

\* After the loop: e.cancel = nil; the completion line follows.
TplFinished(t) ==
    /\ At(t, "finish")
    /\ Appends < MaxLines
    /\ cancel' = NoTask
    /\ Step(t, [task[t] EXCEPT !.pc = "append", !.result = "finished",
                               !.message = <<green("Background Task Finished Successfully")>>])
    /\ UNCHANGED <<Data, console, ctx, written, ui, lastCall>>

\* addAndUpdateConsole, the whole call; then the next iteration or the return.
TplAddAndUpdateConsole(t) ==
    /\ At(t, "append")
    /\ console' = Sprintln(task[t].message) \o console
    /\ written' = <<t>> \o written
    /\ ui' = TplGetUI(Data, console', cancel)
    /\ IF task[t].result = "working"
       THEN Step(t, [task[t] EXCEPT !.pc = "for", !.message = <<>>,
                                    !.count = task[t].count + 1])
       ELSE Step(t, [task[t] EXCEPT !.pc = "done", !.message = <<>>])
    /\ UNCHANGED <<Data, cancel, ctx, lastCall>>

TplBackgroundTask(t) ==
    \/ TplLoop(t)
    \/ TplCanceled(t)
    \/ TplTick(t)
    \/ TplFinished(t)
    \/ TplAddAndUpdateConsole(t)

TplNext ==
    \/ \E data \in TplSubmitInputs : TplSubmitData(data)
    \/ Cancel
    \/ Stop
    \/ \E t \in 1..MaxTasks : TplBackgroundTask(t)

TplSpec == TplInit /\ [][TplNext]_vars

(***************************************************************************)
(* Properties.                                                             *)
(***************************************************************************)
\* Task t has been spawned and has not returned.
Executing(t) == t \in DOMAIN task /\ task[t].pc # "done"

\* Task t holds neither an open session nor an open client.
Released(t) == task[t].session # "open" /\ task[t].client # "open"

\* The foreground has made no call since the SubmitData that spawned task t.
Undisturbed(t) == lastCall.op = "SubmitData" /\ lastCall.spawned = t

\* Task t's console write came after task u's.
WroteAfter(t, u) ==
    \E i, j \in 1..Len(written) : i < j /\ written[i] = t /\ written[j] = u

\* C1: once a Runner has returned, with no SubmitData, Cancel or Stop since the
\* SubmitData that spawned it, the cancel handle is nil.
C1_HandleNilAfterRunner ==
    \A t \in DOMAIN task :
        (task[t].pc = "done" /\ Undisturbed(t)) => cancel = NoTask

\* C2: whenever the cancel handle is non-nil, exactly one Runner is executing;
\* a Runner whose token is tripped counts as done already, so that a preempted
\* Runner still unwinding is not held against the claim.
C2_HandleMeansOneRunner ==
    cancel # NoTask =>
        Cardinality({t \in DOMAIN task : Executing(t) /\ ctx[t] = "live"}) = 1

\* C3: no step of a Runner changes a cancel handle that holds the token of a
\* newer Runner.
C3_NoClobber ==
    [][\A t \in DOMAIN task :
          (task'[t] # task[t] /\ cancel # NoTask /\ cancel # t) => cancel' = cancel]_vars

\* C4: a Runner whose token is tripped while it dials, opens its session or
\* runs its command eventually returns with session and client released.
C4_CancelReachesRunner ==
    \A t \in 1..MaxRunners :
        (t \in DOMAIN task /\ ctx[t] # "live"
           /\ task[t].pc \in {"dial", "session", "run", "wait"})
        ~> (t \in DOMAIN task /\ task[t].pc = "done" /\ Released(t))

\* C5: once the Runner spawned by a preempting SubmitData has written its
\* line, the Runner it preempted never writes above it.
C5_PreemptedNeverOnTop ==
    \A t \in DOMAIN task :
        (t + 1 \in DOMAIN task /\ ctx[t] = "SubmitData") => ~WroteAfter(t, t + 1)

\* The host can read task t's last console line: UpdateUI has been called.
Shown(t) == task[t].pc \in {"close_session", "close_client", "done"}

\* C6, as stated: a successful Runner has released its session and its client
\* by the time its line is handed to UpdateUI.
C6_ReleasedBeforeShown ==
    \A t \in DOMAIN task :
        (task[t].result = "success" /\ Shown(t)) => Released(t)

\* C6, amended: a successful Runner holds its session and its client open
\* while its line is appended and handed to UpdateUI, then closes the session,
\* then the client, and has released both when it has returned.
C6_ReleasedBeforeReturn ==
    \A t \in DOMAIN task :
        task[t].result = "success" =>
            /\ task[t].pc \in {"append", "store", "update", "close_session"}
                   => (task[t].session = "open" /\ task[t].client = "open")
            /\ task[t].pc = "close_client"
                   => (task[t].session = "closed" /\ task[t].client = "open")
            /\ task[t].pc = "done"
                   => (task[t].session = "closed" /\ task[t].client = "closed")

C6_Witness ==
    \E t \in DOMAIN task : task[t].result = "success" /\ task[t].pc = "done"

\* C7: at most one executing Runner has a token that is not tripped.
C7_OneCurrentRunner ==
    Cardinality({t \in DOMAIN task : Executing(t) /\ ctx[t] = "live"}) <= 1

\* A Cancel call that changes anything but the record of the last call.
CancelActs ==
    Cancel /\ <<Data, console, cancel, ctx, task, written, ui>>'
                # <<Data, console, cancel, ctx, task, written, ui>>

\* C8: after a Cancel, and until the next SubmitData, the handle is nil, the
\* call has returned nil and a further Cancel changes nothing at all; a Cancel
\* with no task changes nothing but the record of the call.
C8_CancelIdempotent ==
    /\ lastCall.op = "Cancel" =>
          /\ cancel = NoTask
          /\ lastCall.ret = "nil"
          /\ ~ENABLED <<Cancel>>_vars
    /\ cancel = NoTask => ~ENABLED CancelActs

C8_Witness ==
    /\ lastCall.op = "Cancel"
    /\ \E t \in DOMAIN task : ctx[t] = "Cancel" /\ Executing(t)

\* C9: a SubmitData with valid data installs a token no task has had and
\* spawns exactly one Runner on it, at its first statement; a handle that was
\* non-nil has its token tripped; every older Runner is where it was; the call
\* returns nil.
C9_SubmitStartsFresh ==
    [][(\E data \in SubmitInputs : SubmitData(data)) =>
          /\ cancel' \notin DOMAIN task
          /\ DOMAIN task' = DOMAIN task \cup {cancel'}
          /\ task'[cancel'] = NewTask
          /\ ctx'[cancel'] = "live"
          /\ cancel # NoTask => ctx'[cancel] # "live"
          /\ \A t \in DOMAIN task : task'[t] = task[t]
          /\ lastCall'.ret = "nil"]_vars

C9_Witness ==
    /\ Undisturbed(2)
    /\ cancel = 2
    /\ task[2] = NewTask
    /\ ctx[1] = "SubmitData"
    /\ Executing(1)

\* C10: a SubmitData whose data setFormData rejects shows "Invalid data" with
\* the reason, returns the error, and leaves the form data, the handle, the
\* contexts and the tasks as they were.
C10_InvalidDataChangesNothing ==
    [][\A data \in TplSubmitInputs :
          (TplSubmitData(data) /\ TplSetFormDataErr(Data, data) # "nil") =>
              /\ lastCall'.shown = <<"Invalid data", TplSetFormDataErr(Data, data)>>
              /\ lastCall'.ret = TplSetFormDataErr(Data, data)
              /\ UNCHANGED <<Data, cancel, ctx, task, console>>]_vars

C10_Witness ==
    /\ lastCall.op = "SubmitData"
    /\ lastCall.ret # "nil"
    /\ lastCall.shown = <<"Invalid data", lastCall.ret>>
    /\ cancel # NoTask
    /\ Executing(cancel)

\* The keys setFormData recognizes, and the field each one names.
RecognizedKeys == {IPKey, PortKey, UsernameKey, PasswordKey, CommandKey}

Field(d, key) ==
    CASE key = IPKey -> d.IP
      [] key = PortKey -> d.Port
      [] key = UsernameKey -> d.Username
      [] key = PasswordKey -> d.Password
      [] key = CommandKey -> d.Command

\* The submitted map without its unrecognized keys.
Recognized(data) == [k \in DOMAIN data \cap RecognizedKeys |-> data[k]]

\* C11: a SubmitData stores each recognized key of its map in the matching
\* field, leaves the field of each absent recognized key as it was, and does
\* what it would do for the same map without its unrecognized keys: the same
\* form data, the same result, the console untouched.
C11_PartialUpdate ==
    [][\A data \in SubmitInputs :
          SubmitData(data) =>
              /\ \A key \in RecognizedKeys :
                    Field(Data', key) = IF key \in DOMAIN data THEN data[key]
                                        ELSE Field(Data, key)
              /\ Data' = setFormData(Data, Recognized(data))
              /\ lastCall'.ret = setFormDataErr(Data, Recognized(data))
              /\ console' = console]_vars

\* A map with an unrecognized key and without the ip key has been submitted.
C11_Witness ==
    /\ lastCall.op = "SubmitData"
    /\ Data.Command = "echo done"
    /\ Data.IP = "127.0.0.1"
    /\ Data.Username = ""

\* The console text a form carries.
ConsoleOf(form) == form.Fields[Len(form.Fields)].Value

\* C12: the assignment of every addAndUpdateConsole call leaves in e.console
\* the line rendered from the call's operands followed by the text e.console
\* held just before, and the form the call hands to UpdateUI carries the text
\* the call assigned.
C12_PrependLaw ==
    [][\A t \in DOMAIN task :
          /\ AppendWrite(t) => console' = Sprintln(task[t].message) \o console
          /\ UpdateUI(t) => ConsoleOf(ui') = task[t].tmp]_vars

\* The line task t's addAndUpdateConsole call renders.
LineOf(t) == Sprintln(task[t].message)

\* How many times the text sub occurs in the text s.
Occurrences(s, sub) ==
    Cardinality({i \in 1..(Len(s) - Len(sub) + 1) : SubSeq(s, i, i + Len(sub) - 1) = sub})

\* The tasks that have assigned e.console.
Writers == {written[i] : i \in 1..Len(written)}

\* C14: the console holds the line of every task that has written to it, as
\* many times as tasks have written that line.
C14_NoLineLost ==
    \A t \in Writers :
        Occurrences(console, LineOf(t))
            >= Cardinality({u \in Writers : LineOf(u) = LineOf(t)})

\* The button set of a form.
ButtonSet(form) == {form.Buttons[i] : i \in 1..Len(form.Buttons)}

Returned(t) == t \in DOMAIN task /\ task[t].pc = "done"

\* C15: a task that has returned holds nothing open: nothing was acquired when
\* the dial failed, the client is closed when the session could not be opened,
\* session and client are both closed after the command ran (failing or not);
\* and no client is ever closed while its session is still open.
C15_ReleasedOnEveryPath ==
    \A t \in DOMAIN task :
        /\ task[t].client = "closed" => task[t].session # "open"
        /\ Returned(t) =>
              /\ task[t].result \in {"connect failed", "session failed",
                                     "execution failed", "success"}
              /\ task[t].result = "connect failed" =>
                    task[t].client = "none" /\ task[t].session = "none"
              /\ task[t].result = "session failed" =>
                    task[t].client = "closed" /\ task[t].session = "none"
              /\ task[t].result \in {"execution failed", "success"} =>
                    task[t].client = "closed" /\ task[t].session = "closed"

C15_Witness ==
    \E t, u \in DOMAIN task :
        /\ Returned(t) /\ task[t].result = "session failed"
        /\ Returned(u) /\ task[u].result = "success"

\* How many times task t has assigned e.console.
Appended(t) == Cardinality({i \in 1..Len(written) : written[i] = t})

\* The line the outcome of a task calls for.
LineFor(tk) ==
    CASE tk.result = "connect failed" ->
            \E err \in DialErrors : tk.message = <<red("Failed to connect: "), err>>
      [] tk.result = "session failed" ->
            \E err \in SessionErrors :
                tk.message = <<red("Failed to create SSH session: "), err>>
      [] tk.result = "execution failed" ->
            /\ Len(tk.message) = 2
            /\ tk.message[1] = red("Command execution failed: ")
      [] tk.result = "success" ->
            \E data \in SubmitInputs :
                tk.message = <<green("Command executed successfully:\n"),
                               Output(data[CommandKey])>>
      [] OTHER -> tk.message = <<>>

\* The step that failed first, read off what the task had acquired by then.
FirstFailure(tk) ==
    CASE tk.result = "connect failed" -> tk.client = "none" /\ tk.session = "none"
      [] tk.result = "session failed" -> tk.client # "none" /\ tk.session = "none"
      [] tk.result \in {"execution failed", "success"} ->
            tk.client # "none" /\ tk.session # "none"
      [] OTHER -> TRUE

\* C16: a task calls addAndUpdateConsole once before it returns and never
\* twice, with the line of the first step that failed (or the success line and
\* the output), and the text it assigns starts with that line; no step of a
\* task shows a message or changes the form data.
C16_OneLinePerRunner ==
    /\ [](\A t \in DOMAIN task :
             /\ Appended(t) <= 1
             /\ Returned(t) => Appended(t) = 1
             /\ Appended(t) = 1 => task[t].result # ""
             /\ LineFor(task[t])
             /\ FirstFailure(task[t]))
    /\ [][\A t \in DOMAIN task :
             backgroundTask(t) =>
                 /\ Data' = Data
                 /\ lastCall' = lastCall
                 /\ AppendWrite(t) =>
                       SubSeq(console', 1, Len(LineOf(t))) = LineOf(t)]_vars

C16_Witness ==
    \E t, u \in DOMAIN task :
        /\ Returned(t) /\ task[t].result = "execution failed"
        /\ Returned(u) /\ task[u].result = "connect failed"
        /\ Appended(t) = 1 /\ Appended(u) = 1

\* What one call of Cancel does, said without the handler's own words.
CancelEffect ==
    /\ cancel' = NoTask
    /\ DOMAIN ctx' = DOMAIN ctx
    /\ \A t \in DOMAIN ctx :
          ctx'[t] = IF t = cancel /\ ctx[t] = "live" THEN "Cancel" ELSE ctx[t]
    /\ cancel # NoTask => ctx'[cancel] # "live"
    /\ task' = task
    /\ Data' = Data
    /\ console' = console
    /\ written' = written
    /\ ui' = ui
    /\ lastCall'.ret = "nil"
    /\ lastCall'.shown = <<>>

\* C17: a call of Stop and a call of Cancel each trip the token of a non-nil
\* handle and leave the handle nil at once, with every task where it was, the
\* form data and the console untouched, and nil returned.
C17_StopIsCancel ==
    /\ [][Stop => CancelEffect]_vars
    /\ [][Cancel => CancelEffect]_vars

C17_Witness ==
    /\ lastCall.op = "Cancel"
    /\ cancel = NoTask
    /\ \E t \in DOMAIN task :
          /\ ctx[t] = "Cancel"
          /\ task[t].pc = "wait"
          /\ task[t].session = "open"
    /\ \A t \in DOMAIN task : ctx[t] # "live"

\* The form data e.Base.Data can hold after n calls of SubmitData.
RECURSIVE IngestedWithin(_)
IngestedWithin(n) ==
    IF n = 0 THEN {DefaultData}
    ELSE LET before == IngestedWithin(n - 1)
         IN  before \cup {setFormData(d, data) : d \in before, data \in SubmitInputs}

\* C18: the user, password and address a task dials with all come from the
\* form data as one SubmitData left it.
C18_OneSubmissionPerRunner ==
    \A t \in DOMAIN task :
        task[t].pc = "dial" =>
            \E d \in IngestedWithin(MaxRunners) :
                /\ task[t].user = d.Username
                /\ task[t].pass = d.Password
                /\ task[t].addr = Address(d.IP, d.Port)

====
